---------------------------- MODULE Spec2Model ----------------------------
(***************************************************************************)
(* Model of src/main.py: the Instagram transcript tool.                    *)
(*                                                                         *)
(* Text is modelled as a sequence of strings.  A URL is the sequence of    *)
(* its characters; a message is the sequence of the literal phrases of the *)
(* f-string that builds it, with the interpolated values in between.  The  *)
(* phrases that the code later looks for with `in` are tokens of their own.*)
(***************************************************************************)
EXTENDS Integers, Sequences, FiniteSets, TLC

VARIABLES
    aai_settings_api_key,  \* aai.settings.api_key, the process-wide credential
    env_api_key,           \* os.getenv("ASSEMBLYAI_API_KEY") at process start
    running,               \* the invocation that holds the event loop thread, 0 if none
    pc,                    \* position of each invocation of get_instagram_transcript
    url,                   \* parameter url of each invocation
    assemblyai_api_key,    \* parameter assemblyai_api_key of each invocation
    post,                  \* what the platform answered to the invocation's resolver
    media_url,             \* local media_url
    key_at_call,           \* aai.settings.api_key when the transcription client was entered
    calls,                 \* number of calls of transcribe_audio_with_assemblyai
    transcript,            \* what transcriber.transcribe did for the invocation
    result,                \* local result, the dict the transcription client returned
    ret,                   \* the string the invocation returned
    exc,                   \* the exception that left the invocation, if any
    jobs,                  \* transcription jobs submitted to the service
    arg,                   \* input of the function applied (function specifications)
    res                    \* its output

vars == <<aai_settings_api_key, env_api_key, running, pc, url, assemblyai_api_key,
          post, media_url, key_at_call, calls, transcript, result, ret, exc, jobs,
          arg, res>>

pipeVars == <<aai_settings_api_key, env_api_key, running, pc, url, assemblyai_api_key,
              post, media_url, key_at_call, calls, transcript, result, ret, exc,
              jobs>>

-----------------------------------------------------------------------------
(* Bounds *)

NInv == 2          \* invocations the host makes
MaxPieces == 3     \* URL pieces after the domain, function specification of the URLs
MaxK == 8          \* millisecond offsets tried around each boundary
MaxUtt == 2        \* utterances of a transcript, function specification of the format

-----------------------------------------------------------------------------
(* Python values *)

NoneVal == "<None>"                       \* the object None
Truthy(v) == v \notin {NoneVal, ""}       \* `if v:` for None and str
Str(v) == IF v = NoneVal THEN "None" ELSE v   \* str(v), as an f-string renders v

Min(S) == CHOOSE x \in S : \A y \in S : x <= y

RECURSIVE Flatten(_)
Flatten(ss) == IF ss = <<>> THEN <<>> ELSE Head(ss) \o Flatten(Tail(ss))

\* sub in text, for a phrase that is one token
Contains(text, phrase) == \E k \in 1..Len(text) : text[k] = phrase

-----------------------------------------------------------------------------
(* Regular expressions of the URL functions, over sequences of characters *)

Lower == {"a","b","c","d","e","f","g","h","i","j","k","l","m",
          "n","o","p","q","r","s","t","u","v","w","x","y","z"}
Upper == {"A","B","C","D","E","F","G","H","I","J","K","L","M",
          "N","O","P","Q","R","S","T","U","V","W","X","Y","Z"}
Digit == {"0","1","2","3","4","5","6","7","8","9"}

\* [a-zA-Z0-9_-]
IsShortcodeChar(c) == c \in Lower \cup Upper \cup Digit \cup {"_", "-"}
\* [^/]
IsNotSlash(c) == c # "/"

\* instagram\.com/
Domain == <<"i","n","s","t","a","g","r","a","m",".","c","o","m","/">>
Stories == <<"s","t","o","r","i","e","s","/">>
PostKinds == << <<"p">>, <<"r","e","e","l">>, <<"t","v">> >>

HasAt(s, k, lit) ==
    /\ k + Len(lit) - 1 <= Len(s)
    /\ \A j \in 1..Len(lit) : s[k + j - 1] = lit[j]

\* [a-zA-Z0-9_-]+ and [^/]+, greedy: the last index of the longest run of
\* characters of the class that starts at k (k-1: none)
ShortcodeRunEnd(s, k) ==
    LET stops == {e \in k..Len(s) : ~IsShortcodeChar(s[e])}
    IN  IF stops = {} THEN Len(s) ELSE Min(stops) - 1

NotSlashRunEnd(s, k) ==
    LET stops == {e \in k..Len(s) : ~IsNotSlash(s[e])}
    IN  IF stops = {} THEN Len(s) ELSE Min(stops) - 1

NoMatch == [found |-> FALSE, group |-> <<>>]
Match(g) == [found |-> TRUE, group |-> g]

\* ([a-zA-Z0-9_-]+) at k: greedy, nothing follows it in any of the patterns
ShortcodeAt(s, k) ==
    LET e == ShortcodeRunEnd(s, k)
    IN  IF k <= Len(s) /\ e >= k THEN Match(SubSeq(s, k, e)) ELSE NoMatch

\* instagram\.com/(?:p|reel|tv)/([a-zA-Z0-9_-]+) at k
PostPatternAt(s, k) ==
    LET ok == {a \in 1..Len(PostKinds) :
                  /\ HasAt(s, k, Domain \o PostKinds[a] \o <<"/">>)
                  /\ ShortcodeAt(s, k + Len(Domain) + Len(PostKinds[a]) + 1).found}
    IN  IF ok = {} THEN NoMatch
        ELSE ShortcodeAt(s, k + Len(Domain) + Len(PostKinds[Min(ok)]) + 1)

\* stories/[^/]+/ at k: the index after it, 0 when it does not match.  [^/]+ is
\* followed by "/", so only its longest run can be followed by the slash.
StoriesPrefixAt(s, k) ==
    LET q == k + Len(Stories)
        e == NotSlashRunEnd(s, q)
    IN  IF HasAt(s, k, Stories) /\ e >= q /\ e + 1 <= Len(s) /\ s[e + 1] = "/"
        THEN e + 2 ELSE 0

\* instagram\.com/stories/[^/]+/([a-zA-Z0-9_-]+) at k
StoriesPatternAt(s, k) ==
    LET n == StoriesPrefixAt(s, k + Len(Domain))
    IN  IF HasAt(s, k, Domain) /\ n > 0 THEN ShortcodeAt(s, n) ELSE NoMatch

\* instagram\.com/(?:stories/[^/]+/)?([a-zA-Z0-9_-]+) at k: the optional group is
\* tried first, then skipped
AnyPathPatternAt(s, k) ==
    IF ~HasAt(s, k, Domain) THEN NoMatch
    ELSE IF StoriesPatternAt(s, k).found THEN StoriesPatternAt(s, k)
    ELSE ShortcodeAt(s, k + Len(Domain))

\* re.search with each pattern: the leftmost position where it matches
SearchPost(s) ==
    LET ks == {k \in 1..Len(s) : PostPatternAt(s, k).found}
    IN  IF ks = {} THEN NoMatch ELSE PostPatternAt(s, Min(ks))

SearchStories(s) ==
    LET ks == {k \in 1..Len(s) : StoriesPatternAt(s, k).found}
    IN  IF ks = {} THEN NoMatch ELSE StoriesPatternAt(s, Min(ks))

SearchAnyPath(s) ==
    LET ks == {k \in 1..Len(s) : AnyPathPatternAt(s, k).found}
    IN  IF ks = {} THEN NoMatch ELSE AnyPathPatternAt(s, Min(ks))

-----------------------------------------------------------------------------
(* Outcomes of a call: a value returned or an exception raised *)

Return(v) == [raised |-> FALSE, val |-> v]
Raise(m) == [raised |-> TRUE, val |-> m]

MsgInvalidUrl == "Invalid Instagram URL format: "
PhraseCouldNotExtract == "Could not extract"
PhraseFailedToFetch == "Failed to fetch Instagram post"
PhraseNotVideo == "does not contain video"
PrefixInternal == "Error extracting Instagram media URL: "

\* lines 22-35
extract_instagram_url(u) ==
    IF SearchPost(u).found THEN Return(u)
    ELSE IF SearchAnyPath(u).found THEN Return(u)
    ELSE Raise(<<MsgInvalidUrl>> \o u)

\* lines 38-50
extract_shortcode_from_url(u) ==
    IF SearchPost(u).found THEN Return(SearchPost(u).group)
    ELSE IF SearchStories(u).found
         THEN Return(SearchStories(u).group)
    ELSE Raise(<<PhraseCouldNotExtract, " shortcode from Instagram URL: ">> \o u)


-----------------------------------------------------------------------------
(* Media resolver, lines 53-102 *)

CdnUrl == "https://cdn.example/v.mp4"

MsgNotVideo ==
    <<"Instagram post ", PhraseNotVideo,
      " content. Only video content can be transcribed.">>
MsgNoVideoUrl == <<PhraseCouldNotExtract, " video URL from Instagram post.">>

\* Messages of the exceptions the collaborators raise: opaque text, which may
\* happen to hold one of the phrases the resolver looks for.
ExcMsgs == { <<"Connection timed out">>,
             <<PhraseCouldNotExtract, " JSON from response">> }

\* What the platform library does in one resolution: the Instaloader constructor
\* raises, Post.from_shortcode raises, or a post comes back.
PlatformOutcomes ==
    [kind : {"ctor_raises", "fetch_raises"}, msg : ExcMsgs]
    \cup [kind : {"post"}, is_video : {FALSE}, video_url : {NoneVal}]
    \cup [kind : {"post"}, is_video : {TRUE}, video_url : {NoneVal, "", CdnUrl}]

NoPost == [kind |-> "none"]

\* the resolver without the check of lines 88-89
ResolveBody_no_video_check(u, p) ==
    IF p.kind = "ctor_raises" THEN Raise(p.msg)
    ELSE IF extract_shortcode_from_url(u).raised THEN extract_shortcode_from_url(u)
    ELSE IF p.kind = "fetch_raises" THEN Raise(<<PhraseFailedToFetch, ": ">> \o p.msg)
    ELSE IF ~Truthy(p.video_url) THEN Raise(MsgNoVideoUrl)
    ELSE Return(p.video_url)

\* the body of the try block, lines 67-96
ResolveBody(u, p) ==
    IF p.kind = "ctor_raises" THEN Raise(p.msg)
    ELSE IF extract_shortcode_from_url(u).raised THEN extract_shortcode_from_url(u)
    ELSE IF p.kind = "fetch_raises" THEN Raise(<<PhraseFailedToFetch, ": ">> \o p.msg)
    ELSE IF ~p.is_video THEN Raise(MsgNotVideo)
    ELSE IF ~Truthy(p.video_url) THEN Raise(MsgNoVideoUrl)
    ELSE Return(p.video_url)

\* the except clause, lines 98-102
ResolveExcept(o) ==
    IF ~o.raised THEN o
    ELSE IF \/ Contains(o.val, PhraseFailedToFetch)
            \/ Contains(o.val, PhraseCouldNotExtract)
            \/ Contains(o.val, PhraseNotVideo)
         THEN o
    ELSE Raise(<<PrefixInternal>> \o o.val)

get_instagram_media_url(u, p) == ResolveExcept(ResolveBody(u, p))

\* How far lines 67-96 went with the platform: the constructor raised, no
\* shortcode so the platform was never asked, or the platform's answer.
PlatformTrace(u, p) ==
    IF p.kind = "ctor_raises" THEN p
    ELSE IF extract_shortcode_from_url(u).raised THEN [kind |-> "no_shortcode"]
    ELSE p

-----------------------------------------------------------------------------
(* Timestamps, lines 176-185.  The argument is the offset in milliseconds: the
   caller passes ms / 1000, and //, % and int() of that quotient are computed
   exactly on the milliseconds. *)

RECURSIVE Digits(_)
Digits(n) ==
    LET d == <<"0","1","2","3","4","5","6","7","8","9">>
    IN  IF n < 10 THEN <<d[n + 1]>> ELSE Digits(n \div 10) \o <<d[(n % 10) + 1]>>

\* {n:02d}
Fmt02d(n) == IF n < 10 THEN <<"0">> \o Digits(n) ELSE Digits(n)

\* format_timestamp with minutes = seconds // 60
format_timestamp_no_mod(ms) ==
    LET hours == ms \div 3600000
        minutes == ms \div 60000
        seconds == (ms % 60000) \div 1000
    IN  IF hours > 0
        THEN Fmt02d(hours) \o <<":">> \o Fmt02d(minutes) \o <<":">> \o Fmt02d(seconds)
        ELSE Fmt02d(minutes) \o <<":">> \o Fmt02d(seconds)

format_timestamp(ms) ==
    LET hours == ms \div 3600000
        minutes == (ms % 3600000) \div 60000
        seconds == (ms % 60000) \div 1000
    IN  IF hours > 0
        THEN Fmt02d(hours) \o <<":">> \o Fmt02d(minutes) \o <<":">> \o Fmt02d(seconds)
        ELSE Fmt02d(minutes) \o <<":">> \o Fmt02d(seconds)

-----------------------------------------------------------------------------
(* Transcription client, lines 105-173 *)

MsgNoKey ==
    <<"AssemblyAI API key not found. Please set ASSEMBLYAI_API_KEY environment variable or provide api_key parameter.">>

\* lines 118-119: the value of aai.settings.api_key after them
SetApiKey(api_key, settings_key) ==
    IF Truthy(api_key) THEN api_key ELSE settings_key

\* the client without the check of lines 122-127
KeyMissing_unchecked(settings_key) == FALSE

\* lines 122-127
KeyMissing(settings_key) == ~Truthy(settings_key)

Failure(msg, audio_url) ==
    [success |-> FALSE, error |-> msg, audio_url |-> audio_url]

\* line 153 with `is not None` for the truth test
SpeakerLabel_none_only(speaker) ==
    IF speaker # NoneVal THEN <<"Speaker ", speaker>> ELSE <<"Speaker">>

\* line 153
SpeakerLabel(speaker) ==
    IF Truthy(speaker) THEN <<"Speaker ", speaker>> ELSE <<"Speaker">>

\* lines 151-154
UtteranceLine(ut) ==
    <<"[">> \o format_timestamp(ut.start) \o <<" - ">> \o format_timestamp(ut.end)
      \o <<"] ">> \o SpeakerLabel(ut.speaker) \o <<": ", ut.text>>

\* '\n'.join(lines)
RECURSIVE Join(_)
Join(lines) ==
    IF lines = <<>> THEN <<>>
    ELSE IF Len(lines) = 1 THEN lines[1]
    ELSE lines[1] \o <<"\n">> \o Join(Tail(lines))

\* lines 148-157 and the join of line 161
FormattedTranscript(t) ==
    IF t.utterances # <<>>
    THEN Join([k \in 1..Len(t.utterances) |-> UtteranceLine(t.utterances[k])])
    ELSE Join(<< <<t.text>> >>)

\* lines 138-173: s is what transcriber.transcribe does, raise or come back with
\* a transcript in a terminal state
TranscribeOutcome(audio_url, s) ==
    IF s.kind = "raises" THEN Failure(s.msg, audio_url)
    ELSE IF s.status = "error" THEN Failure(<<s.error>>, audio_url)
    ELSE [success |-> TRUE,
          transcript |-> FormattedTranscript(s),
          confidence |-> s.confidence,
          audio_duration |-> s.audio_duration,
          language_detected |->
              IF s.has_language_code THEN s.language_code ELSE "unknown",
          audio_url |-> audio_url]

-----------------------------------------------------------------------------
(* Exposed operation, lines 188-225 *)

FailMark == "[X] "
OkMark == "[OK] Successfully extracted transcript from Instagram content\n\n"
LabelLanguage == "Language Detected: "
LabelConfidence == "Confidence: "

\* dict.get(key, default)
Get(d, key, default) == IF key \in DOMAIN d THEN d[key] ELSE default

\* lines 212-222
FormatResponse(u, r) ==
    IF r.success
    THEN <<OkMark, "Source: ">> \o u
         \o <<"\n", "Audio Duration: ", Str(Get(r, "audio_duration", "Unknown")), "ms\n",
              LabelLanguage, Str(Get(r, "language_detected", "Unknown")), "\n",
              LabelConfidence, Str(Get(r, "confidence", "Unknown")), "\n\n",
              "Transcript:\n">>
         \o r.transcript
    ELSE <<FailMark, "Failed to transcribe content: ">> \o r.error

\* lines 206-207
ResolverFailed(o) == Return(<<FailMark>> \o o.val)

\* lines 224-225
MsgProcessing == "Error processing Instagram content: "
\* the operation without the except clause of lines 224-225
OuterExcept_propagates(o) == o

OuterExcept(o) == Return(<<FailMark, MsgProcessing>> \o o.val)

\* the try of line 199 around an outcome of its body
TryOuter(o) == IF o.raised THEN OuterExcept(o) ELSE o

-----------------------------------------------------------------------------
(* Inputs and collaborators of the pipeline *)

Scheme == <<"h","t","t","p","s",":","/","/">>
UrlReel == Scheme \o Domain \o <<"r","e","e","l","/","X","1","/">>
UrlProfile == Scheme \o Domain \o <<"u","s","e","r">>
UrlOther == Scheme \o <<"x",".","i","o","/","p","/","X","1">>
PipelineUrls == {UrlReel, UrlProfile, UrlOther}

KeyArgs == {NoneVal, "", "K1"}
EnvKeys == {NoneVal, "K0"}

Utt(st, en, sp, tx) == [start |-> st, end |-> en, speaker |-> sp, text |-> tx]
SampleUtterances == <<Utt(0, 1500, "A", "hello"), Utt(1500, 4000, NoneVal, "world")>>

\* What transcriber.transcribe does: raise, or return a transcript in a terminal
\* state.
ServiceOutcomes ==
    [kind : {"raises"}, msg : {<<"Connection timed out">>}]
    \cup [kind : {"terminal"}, status : {"error"}, error : {"Download failed"}]
    \cup [kind : {"terminal"}, status : {"completed"},
          utterances : {<<>>, SampleUtterances}, text : {"hello world"},
          confidence : {NoneVal, "0.9"}, audio_duration : {"2"},
          has_language_code : BOOLEAN, language_code : {NoneVal, "en"}]

Invocations == 1..NInv
NoTranscript == [kind |-> "none"]
NoResult == [success |-> FALSE, error |-> <<>>, audio_url |-> NoneVal]

-----------------------------------------------------------------------------
(* State machine of the process: the host's event loop runs the invocations of
   the coroutine get_instagram_transcript.  The coroutine holds no await, so an
   invocation that has begun keeps the loop's thread until it returns. *)

\* lines 15-17
StartupKey(env) == IF Truthy(env) THEN env ELSE NoneVal

NotApplied == [done |-> FALSE]

PipeInit ==
    /\ env_api_key \in EnvKeys
    /\ aai_settings_api_key = StartupKey(env_api_key)
    /\ running = 0
    /\ pc = [i \in Invocations |-> "idle"]
    /\ url = [i \in Invocations |-> <<>>]
    /\ assemblyai_api_key = [i \in Invocations |-> NoneVal]
    /\ post = [i \in Invocations |-> NoPost]
    /\ media_url = [i \in Invocations |-> NoneVal]
    /\ key_at_call = [i \in Invocations |-> NoneVal]
    /\ calls = [i \in Invocations |-> 0]
    /\ transcript = [i \in Invocations |-> NoTranscript]
    /\ result = [i \in Invocations |-> NoResult]
    /\ ret = [i \in Invocations |-> <<>>]
    /\ exc = [i \in Invocations |-> <<>>]
    /\ jobs = {}

Init ==
    /\ PipeInit
    /\ arg = <<>>
    /\ res = NotApplied

\* The coroutine ends: it returns o.val, or the exception o.val leaves it.
Finish(i, o) ==
    /\ pc' = [pc EXCEPT ![i] = "done"]
    /\ ret' = [ret EXCEPT ![i] = IF o.raised THEN <<>> ELSE o.val]
    /\ exc' = [exc EXCEPT ![i] = IF o.raised THEN o.val ELSE <<>>]

\* The host receives a tool call and schedules the coroutine on its loop.
Call(i) ==
    /\ pc[i] = "idle"
    /\ \E u \in PipelineUrls, k \in KeyArgs :
          /\ url' = [url EXCEPT ![i] = u]
          /\ assemblyai_api_key' = [assemblyai_api_key EXCEPT ![i] = k]
    /\ pc' = [pc EXCEPT ![i] = "scheduled"]
    /\ UNCHANGED <<aai_settings_api_key, env_api_key, running, post, media_url,
                   key_at_call, calls, transcript, result, ret, exc, jobs, arg, res>>

\* The loop starts the coroutine: lines 199-201.
Begin(i) ==
    /\ pc[i] = "scheduled"
    /\ running = 0
    /\ running' = i
    /\ LET v == extract_instagram_url(url[i])
       IN  IF v.raised
           THEN Finish(i, TryOuter(v))
           ELSE /\ pc' = [pc EXCEPT ![i] = "resolving"]
                /\ UNCHANGED <<ret, exc>>
    /\ UNCHANGED <<aai_settings_api_key, env_api_key, url, assemblyai_api_key, post,
                   media_url, key_at_call, calls, transcript, result, jobs, arg, res>>

\* lines 203-207: the resolver runs against the platform.
Resolve(i) ==
    /\ pc[i] = "resolving"
    /\ running = i
    /\ \E p \in PlatformOutcomes :
          LET m == get_instagram_media_url(url[i], p)
          IN  /\ post' = [post EXCEPT ![i] = PlatformTrace(url[i], p)]
              /\ IF m.raised
                 THEN /\ Finish(i, TryOuter(ResolverFailed(m)))
                      /\ UNCHANGED media_url
                 ELSE /\ media_url' = [media_url EXCEPT ![i] = m.val]
                      /\ pc' = [pc EXCEPT ![i] = "transcribing"]
                      /\ UNCHANGED <<ret, exc>>
    /\ UNCHANGED <<aai_settings_api_key, env_api_key, running, url, assemblyai_api_key,
                   key_at_call, calls, transcript, result, jobs, arg, res>>

\* line 210 and lines 116-138: the transcription client is entered, settles the
\* credential and hands the job to the service, or returns the configuration
\* failure (then lines 212-222).
Submit(i) ==
    /\ pc[i] = "transcribing"
    /\ running = i
    /\ calls' = [calls EXCEPT ![i] = @ + 1]
    /\ key_at_call' = [key_at_call EXCEPT ![i] = aai_settings_api_key]
    /\ aai_settings_api_key' = SetApiKey(assemblyai_api_key[i], aai_settings_api_key)
    /\ IF KeyMissing(aai_settings_api_key')
       THEN /\ result' = [result EXCEPT ![i] = Failure(MsgNoKey, media_url[i])]
            /\ Finish(i, TryOuter(Return(FormatResponse(url[i], result'[i]))))
            /\ UNCHANGED jobs
       ELSE /\ jobs' = jobs \cup {[inv |-> i, key |-> aai_settings_api_key',
                                   audio_url |-> media_url[i]]}
            /\ pc' = [pc EXCEPT ![i] = "waiting"]
            /\ UNCHANGED <<result, ret, exc>>
    /\ UNCHANGED <<env_api_key, running, url, assemblyai_api_key, post, media_url,
                   transcript, arg, res>>

\* line 138 returns or raises: the job reached a terminal state, or the
\* transport failed; lines 140-173, then lines 212-222.
JobDone(i) ==
    /\ pc[i] = "waiting"
    /\ running = i
    /\ \E s \in ServiceOutcomes :
          /\ transcript' = [transcript EXCEPT ![i] = s]
          /\ result' = [result EXCEPT ![i] = TranscribeOutcome(media_url[i], s)]
          /\ Finish(i, TryOuter(Return(FormatResponse(url[i], result'[i]))))
    /\ UNCHANGED <<aai_settings_api_key, env_api_key, running, url,
                   assemblyai_api_key, post, media_url, key_at_call, calls, jobs,
                   arg, res>>

\* The task that ran the coroutine hands the answer to the host's transport and
\* ends: the invocation's frame is gone and the loop's thread is free again.
Collect(i) ==
    /\ pc[i] = "done"
    /\ running = i
    /\ running' = 0
    /\ pc' = [pc EXCEPT ![i] = "collected"]
    /\ url' = [url EXCEPT ![i] = <<>>]
    /\ assemblyai_api_key' = [assemblyai_api_key EXCEPT ![i] = NoneVal]
    /\ post' = [post EXCEPT ![i] = NoPost]
    /\ media_url' = [media_url EXCEPT ![i] = NoneVal]
    /\ key_at_call' = [key_at_call EXCEPT ![i] = NoneVal]
    /\ calls' = [calls EXCEPT ![i] = 0]
    /\ transcript' = [transcript EXCEPT ![i] = NoTranscript]
    /\ result' = [result EXCEPT ![i] = NoResult]
    /\ ret' = [ret EXCEPT ![i] = <<>>]
    /\ exc' = [exc EXCEPT ![i] = <<>>]
    /\ UNCHANGED <<aai_settings_api_key, env_api_key, jobs, arg, res>>

Next ==
    \E i \in Invocations :
        \/ Call(i)
        \/ Begin(i)
        \/ Resolve(i)
        \/ Submit(i)
        \/ JobDone(i)
        \/ Collect(i)

Spec == Init /\ [][Next]_vars

-----------------------------------------------------------------------------
(* Function specifications: a function of the program applied to each input
   of a bounded set.  The process itself is left as it starts. *)

FnInit ==
    /\ PipeInit
    /\ env_api_key = NoneVal
    /\ res = NotApplied

\* Sequences of at most n elements of S
SeqsUpTo(S, n) == UNION {[1..m -> S] : m \in 0..n}

(* URLs: a head, then up to MaxPieces pieces *)
DomainNoDot == <<"i","n","s","t","a","g","r","a","m","X","c","o","m","/">>
UrlHeads == {Scheme \o Domain, Domain, Scheme \o DomainNoDot}
UrlPieces == { <<"p","/">>, <<"r","e","e","l","/">>, <<"t","v","/">>, Stories,
               <<"a">>, <<"a","/">>, <<"_","-","1">>, <<"?">>, <<"/">>, Domain }
UrlInputs == {h \o Flatten(ps) : h \in UrlHeads, ps \in SeqsUpTo(UrlPieces, MaxPieces)}

UrlInit == FnInit /\ arg \in UrlInputs

\* lines 201 and 79: the validator and the shortcode extraction on the same URL
UrlApply ==
    /\ ~res.done
    /\ res' = [done |-> TRUE,
               accepted |-> ~extract_instagram_url(arg).raised,
               shortcode |-> extract_shortcode_from_url(arg)]
    /\ UNCHANGED <<pipeVars, arg>>

SpecUrl == UrlInit /\ [][UrlApply]_vars

(* Millisecond offsets around the boundaries of the format *)
MsBoundaries == {0, 9000, 58000, 598000, 3598000, 35998000, 359998000}
MsInputs == {b + k * 499 : b \in MsBoundaries, k \in 0..MaxK}

TsInit == FnInit /\ arg \in MsInputs

\* lines 151-152: format_timestamp(utterance.start / 1000)
TsApply ==
    /\ ~res.done
    /\ res' = [done |-> TRUE, out |-> format_timestamp(arg)]
    /\ UNCHANGED <<pipeVars, arg>>

SpecTs == TsInit /\ [][TsApply]_vars

(* Transcripts the service completes with *)
UtteranceSet ==
    {Utt(0, 1500, sp, tx) : sp \in {NoneVal, "", "A"}, tx \in {"hello", "world"}}
    \cup {Utt(3599000, 3661001, sp, tx) : sp \in {NoneVal, "", "A"}, tx \in {"hello", "world"}}
Completed(uts) ==
    [kind |-> "terminal", status |-> "completed", utterances |-> uts,
     text |-> "hello world", confidence |-> "0.9", audio_duration |-> "2",
     has_language_code |-> TRUE, language_code |-> "en"]

FmtInit == FnInit /\ arg \in SeqsUpTo(UtteranceSet, MaxUtt)

\* lines 138-166 on a completed transcript
FmtApply ==
    /\ ~res.done
    /\ res' = [done |-> TRUE, out |-> TranscribeOutcome(CdnUrl, Completed(arg))]
    /\ UNCHANGED <<pipeVars, arg>>

SpecFmt == FmtInit /\ [][FmtApply]_vars

-----------------------------------------------------------------------------
(* Properties *)

JobsOf(i) == {j \in jobs : j.inv = i}
ConfigFailure(i) == Failure(MsgNoKey, media_url[i])

\* the fields of a text between the separators
RECURSIVE SplitOn(_, _)
SplitOn(s, sep) ==
    LET at == {k \in 1..Len(s) : s[k] = sep}
    IN  IF at = {} THEN <<s>>
        ELSE <<SubSeq(s, 1, Min(at) - 1)>> \o SplitOn(SubSeq(s, Min(at) + 1, Len(s)), sep)

DigitValue(c) ==
    CASE c = "0" -> 0 [] c = "1" -> 1 [] c = "2" -> 2 [] c = "3" -> 3 [] c = "4" -> 4
      [] c = "5" -> 5 [] c = "6" -> 6 [] c = "7" -> 7 [] c = "8" -> 8 [] c = "9" -> 9

RECURSIVE NumberOf(_)
NumberOf(ds) ==
    IF ds = <<>> THEN 0
    ELSE 10 * NumberOf(SubSeq(ds, 1, Len(ds) - 1)) + DigitValue(ds[Len(ds)])

AllDigits(ds) == ds # <<>> /\ \A k \in 1..Len(ds) : ds[k] \in Digit

\* seconds that a timestamp MM:SS or HH:MM:SS stands for
ParseTimestamp(ts) ==
    LET f == SplitOn(ts, ":")
    IN  IF Len(f) = 2 THEN 60 * NumberOf(f[1]) + NumberOf(f[2])
        ELSE 3600 * NumberOf(f[1]) + 60 * NumberOf(f[2]) + NumberOf(f[3])

\* the value a report shows after a label
Shown(report, label) == report[(CHOOSE k \in 1..Len(report) : report[k] = label) + 1]

(* C1: an invocation of get_instagram_transcript that has ended has returned a
   string, a failure or a success report; no exception has left it, whatever the
   collaborators did. *)
C1_NeverRaises ==
    \A i \in Invocations :
        pc[i] = "done" =>
            /\ exc[i] = <<>>
            /\ ret[i] # <<>>
            /\ ret[i][1] \in {FailMark, OkMark}

\* an invocation has ended although Post.from_shortcode raised
C1_Witness ==
    \E i \in Invocations :
        /\ pc[i] = "done"
        /\ post[i].kind = "fetch_raises"
        /\ ret[i][1] = FailMark

(* C2: when the post the platform returned is not a video, the invocation returns
   a failure string that holds the not-video message, and it has neither called
   the transcription client nor submitted a job. *)
C2_NonVideoNeverTranscribed ==
    \A i \in Invocations :
        (pc[i] = "done" /\ post[i].kind = "post" /\ ~post[i].is_video) =>
            /\ ret[i][1] = FailMark
            /\ Contains(ret[i], PhraseNotVideo)
            /\ calls[i] = 0
            /\ JobsOf(i) = {}

C2_Witness ==
    \E i \in Invocations :
        pc[i] = "done" /\ post[i].kind = "post" /\ ~post[i].is_video

(* C3: a call of the transcription client with no api_key parameter and no
   process-wide key has returned the configuration failure, and no job of that
   invocation was submitted to the service. *)
C3_NoKeyNoSubmission ==
    \A i \in Invocations :
        (calls[i] > 0 /\ ~Truthy(assemblyai_api_key[i]) /\ ~Truthy(key_at_call[i])) =>
            /\ pc[i] = "done"
            /\ result[i] = ConfigFailure(i)
            /\ JobsOf(i) = {}

C3_Witness ==
    \E i \in Invocations :
        /\ pc[i] = "done"
        /\ calls[i] = 1
        /\ ~Truthy(assemblyai_api_key[i])
        /\ ~Truthy(key_at_call[i])
        /\ ret[i] = <<FailMark, "Failed to transcribe content: ">> \o MsgNoKey

(* C4: invocations leave the process-wide credential as it was configured at
   process start, and an invocation given no assemblyai_api_key, with no
   credential configured at start, ends with the configuration failure. *)
C4_NoStateRetained ==
    /\ aai_settings_api_key = StartupKey(env_api_key)
    /\ \A i \in Invocations :
          (calls[i] > 0 /\ ~Truthy(assemblyai_api_key[i]) /\ ~Truthy(env_api_key)) =>
              /\ pc[i] = "done"
              /\ result[i] = ConfigFailure(i)

(* C5: while an invocation waits for its transcription job, every other
   invocation that the host has scheduled can take its next step. *)
C5_WaitDoesNotBlock ==
    \A i, j \in Invocations :
        (i # j /\ pc[i] = "waiting" /\ pc[j] = "scheduled") => ENABLED Begin(j)

(* C6: the validator accepts a URL exactly when a shortcode can be extracted
   from it, and an extracted shortcode is not empty. *)
C6_ValidatorAgreesWithExtractor ==
    res.done =>
        /\ res.accepted <=> ~res.shortcode.raised
        /\ ~res.shortcode.raised => res.shortcode.val # <<>>

(* C7: the timestamp of a millisecond offset d is two colon-separated fields of
   two digits below one hour, and three fields (hours of at least two digits,
   then two digits each) from one hour on; read back, it is floor(d / 1000)
   seconds. *)
C7_TimestampFormat ==
    res.done =>
        LET f == SplitOn(res.out, ":")
        IN  /\ \A k \in 1..Len(f) : AllDigits(f[k])
            /\ IF arg < 3600000
               THEN Len(f) = 2 /\ Len(f[1]) = 2 /\ Len(f[2]) = 2
               ELSE Len(f) = 3 /\ Len(f[1]) >= 2 /\ Len(f[2]) = 2 /\ Len(f[3]) = 2
            /\ NumberOf(f[Len(f)]) < 60
            /\ NumberOf(f[Len(f) - 1]) < 60
            /\ ParseTimestamp(res.out) = arg \div 1000

\* an offset of an hour or more, with minutes and seconds not zero
C7_Witness ==
    /\ res.done
    /\ arg >= 3600000
    /\ Len(res.out) = 8
    /\ arg % 3600000 >= 60000

\* line k of a transcript, for utterance ut
LineOf(line, ut) ==
    \E a, b \in 1..Len(line) :
        /\ a < b
        /\ line[1] = "["
        /\ line[a] = " - "
        /\ line[b] = "] "
        /\ ParseTimestamp(SubSeq(line, 2, a - 1)) = ut.start \div 1000
        /\ ParseTimestamp(SubSeq(line, a + 1, b - 1)) = ut.end \div 1000
        /\ SubSeq(line, b + 1, Len(line)) =
              (IF ut.speaker # NoneVal /\ ut.speaker # ""
               THEN <<"Speaker ", ut.speaker>> ELSE <<"Speaker">>)
              \o <<": ", ut.text>>

(* C8: for a completed transcript with utterances, the Success record's text has
   one line per utterance, in the service's order, each `[start - end] Label:
   text` with Label `Speaker {id}` for a present, non-empty speaker id and
   `Speaker` otherwise. *)
C8_OneLinePerUtterance ==
    (res.done /\ arg # <<>>) =>
        /\ res.out.success
        /\ LET lines == SplitOn(res.out.transcript, "\n")
           IN  /\ Len(lines) = Len(arg)
               /\ \A k \in 1..Len(arg) : LineOf(lines[k], arg[k])

C8_Witness ==
    /\ res.done
    /\ Len(arg) = 2
    /\ arg[1].speaker = "A"
    /\ arg[2].speaker = ""
    /\ arg[1].text # arg[2].text
    /\ Len(SplitOn(res.out.transcript, "\n")) = 2

NoLanguage(s) == ~s.has_language_code \/ s.language_code = NoneVal

(* C9: a success report shows "Unknown" for the language when the service result
   carries none and the service's language otherwise, and "Unknown" for the
   confidence when the service result carries none and the service's confidence
   otherwise. *)
C9_UnknownWhenAbsent ==
    \A i \in Invocations :
        (pc[i] = "done" /\ result[i].success) =>
            /\ Shown(ret[i], LabelLanguage) =
                  (IF NoLanguage(transcript[i]) THEN "Unknown"
                   ELSE transcript[i].language_code)
            /\ Shown(ret[i], LabelConfidence) =
                  (IF transcript[i].confidence = NoneVal THEN "Unknown"
                   ELSE transcript[i].confidence)

\* the resolver of invocation i failed
ResolverFailedIn(i) ==
    pc[i] = "done" /\ post[i].kind # "none" /\ media_url[i] = NoneVal

(* C10: a failure of the resolver is reported as fetch failed with the
   platform's message, as not video, as no video URL, or else, a failed
   shortcode extraction and an unexpected exception included, as the internal
   error with the prefix "Error extracting Instagram media URL". *)
C10_ResolverFailureKinds ==
    \A i \in Invocations :
        ResolverFailedIn(i) =>
            /\ ret[i][1] = FailMark
            /\ LET m == Tail(ret[i])
               IN  CASE post[i].kind = "fetch_raises" ->
                            m = <<PhraseFailedToFetch, ": ">> \o post[i].msg
                     [] post[i].kind = "post" /\ ~post[i].is_video ->
                            m = MsgNotVideo
                     [] post[i].kind = "post" /\ post[i].is_video ->
                            m = MsgNoVideoUrl
                     [] OTHER -> m[1] = PrefixInternal

=============================================================================
